---------------------------- MODULE Spec2Model ----------------------------
(***************************************************************************)
(* Model of src/src/trigger_groupalarm.py (personalfme-groupalarm2): one   *)
(* invocation that reads and validates the YAML configuration, resolves    *)
(* entity names to ids through the Groupalarm lookup endpoints, assembles  *)
(* the alarm request body and posts it to /alarm or /alarm/preview.        *)
(*                                                                         *)
(* Python values are represented as follows.  A dict is a function whose   *)
(* DOMAIN is the set of keys present; a list is a sequence; an optional    *)
(* value (None or x) is None == <<>> or Some(x) == <<x>>.  A raised        *)
(* exception is the record error = [kind, ...] together with pc moving to  *)
(* "failed".                                                               *)
(***************************************************************************)
EXTENDS Integers, Sequences, FiniteSets, TLC

(***************************************************************************)
(* Bounds of the model.                                                    *)
(***************************************************************************)
\* longest name list / label list handed to a single function call
MaxNames == 2
\* longest name list / label list inside the configuration of a whole run
MaxRunNames == 1
\* most entries in a catalog returned by a lookup endpoint
MaxCatalog == 2
\* largest closeEventInHours in a configuration
MaxHours == 1
\* largest clock reading (sub-hour ticks) during a run
MaxClock == 1

\* entity names, entity ids, label amounts
Names == {"a", "b"}
Ids == {0, 1}
Amounts == {1, 2}
\* HTTP status codes a server answers with
Statuses == {200, 304, 422}

None == <<>>
Some(x) == <<x>>
EmptyDict == [k \in {} |-> TRUE]

Range(s) == {s[i] : i \in DOMAIN s}
SeqsUpTo(S, n) == UNION {[1..k -> S] : k \in 0..n}

(***************************************************************************)
(* requests: Response.raise_for_status raises for 4xx and 5xx only.        *)
(***************************************************************************)
RaisesForStatus(status) == status >= 400 /\ status < 600
Is2xx(status) == status >= 200 /\ status < 300

(***************************************************************************)
(* _get_json_response: a body that is not JSON gives None; a JSON object   *)
(* with 'success' and 'error' and a false 'success' is printed to stderr,  *)
(* reading response['message'] (KeyError when the key is absent).          *)
(* A body is [kind |-> "none"], [kind |-> "list", list |-> catalog] or     *)
(* [kind |-> "dict", dict |-> d].                                          *)
(***************************************************************************)
LogsServerError(body) ==
    /\ body.kind = "dict"
    /\ "success" \in DOMAIN body.dict
    /\ "error" \in DOMAIN body.dict
    /\ ~body.dict["success"]

JsonResponseRaises(body) ==
    LogsServerError(body) /\ "message" \notin DOMAIN body.dict

JsonResponseLog(body) ==
    IF LogsServerError(body) /\ ~JsonResponseRaises(body)
    THEN <<[kind |-> "server", message |-> body.dict["message"],
            details |-> body.dict["error"]]>>
    ELSE <<>>

(***************************************************************************)
(* _get_entity_ids_from_endpoint, lines 172-188: the name -> id map is     *)
(* built entry by entry (a later entry of the same name overwrites), the   *)
(* requested names are looked up in order.                                 *)
(***************************************************************************)
RECURSIVE BuildEntityIdMap(_, _, _)
BuildEntityIdMap(catalog, i, map) ==
    IF i > Len(catalog) THEN map
    ELSE BuildEntityIdMap(catalog, i + 1,
                          (catalog[i].name :> catalog[i].id) @@ map)

RECURSIVE CollectEntityIds(_, _, _, _, _)
CollectEntityIds(entity_names, i, map, entity_ids, found) ==
    IF i > Len(entity_names) THEN [entity_ids |-> entity_ids, found |-> found]
    ELSE IF entity_names[i] \in DOMAIN map
         THEN CollectEntityIds(entity_names, i + 1, map,
                               Append(entity_ids, map[entity_names[i]]),
                               Append(found, entity_names[i]))
         ELSE CollectEntityIds(entity_names, i + 1, map, entity_ids, found)

\* variant of MissingEntities: the difference with the found names is left out
MissingEntitiesAllRequested(entity_names, found) == Range(entity_names)

MissingEntities(entity_names, found) == Range(entity_names) \ Range(found)

ResolveEntityIds(entity_names, catalog) ==
    LET map == BuildEntityIdMap(catalog, 1, EmptyDict)
        got == CollectEntityIds(entity_names, 1, map, <<>>, <<>>)
    IN  IF Len(got.entity_ids) # Len(entity_names)
        THEN [ok |-> FALSE,
              error |-> [kind |-> "ValueError", text |-> "Did not find",
                         missing |-> MissingEntities(entity_names, got.found)]]
        ELSE [ok |-> TRUE, entity_ids |-> got.entity_ids]

(***************************************************************************)
(* The whole of _get_entity_ids_from_endpoint after the GET: the behaviour *)
(* on a response [status, body].                                           *)
(***************************************************************************)
EntityIdsFromResponse(entity_names, response) ==
    IF JsonResponseRaises(response.body)
    THEN [ok |-> FALSE, error |-> [kind |-> "KeyError", text |-> "message"]]
    ELSE IF RaisesForStatus(response.status)
    THEN [ok |-> FALSE, error |-> [kind |-> "HTTPError", text |-> "status"]]
    ELSE IF response.body.kind # "list"
    THEN [ok |-> FALSE, error |-> [kind |-> "TypeError", text |-> "catalog"]]
    ELSE ResolveEntityIds(entity_names, response.body.list)


(***************************************************************************)
(* Configuration documents.  A label entry is a single-key dict            *)
(* {name: amount}; a resources dict holds any of allUsers, labels, units,  *)
(* users, scenarios; a rule holds resources and any of message,            *)
(* messageTemplate, closeEventInHours.  The proxy section only feeds the   *)
(* transport (_get_proxies) and is left out of the documents.              *)
(***************************************************************************)
LabelEntries == {(n :> a) : n \in Names, a \in Amounts}
NameLists(n) == SeqsUpTo(Names, n)
LabelLists(n) == SeqsUpTo(LabelEntries, n)

ResourceDocs(n) ==
    {EmptyDict}
    \cup [allUsers : BOOLEAN]
    \cup [labels : LabelLists(n)]
    \cup [units : NameLists(n)]
    \cup [users : NameLists(n)]
    \cup [scenarios : NameLists(n)]
    \cup [allUsers : BOOLEAN, units : {<<"a">>}]
    \cup [labels : {<<("a" :> 1)>>}, scenarios : {<<"b">>}]
    \cup [users : {<<"a">>}, scenarios : {<<"b">>}]

MessageDocs ==
    {EmptyDict}
    \cup [message : {"", "m"}]
    \cup [messageTemplate : {"a"}]
    \cup [message : {"m"}, messageTemplate : {"a"}]

CloseDocs == {EmptyDict} \cup [closeEventInHours : (-1)..MaxHours]

Rules(n) ==
    {[resources |-> r] @@ m @@ c :
        r \in ResourceDocs(n), m \in MessageDocs, c \in CloseDocs}

\* the alarm code every well-formed document configures, a malformed key,
\* and a code no document configures
ConfiguredCode == "12345"
ShortCode == "123"
OtherCode == "54321"

AlarmMaps(n) ==
    {(ConfiguredCode :> rule) : rule \in Rules(n)}
    \cup {(ShortCode :> [resources |-> [allUsers |-> TRUE], message |-> "m"])}

ApiToken == "t"
FullLogin == ("organization-id" :> 7) @@ ("api-token" :> ApiToken)
LoginDocs ==
    {EmptyDict, ("organization-id" :> 7), ("api-token" :> ApiToken), FullLogin}

\* documents as yaml.load returns them: login is optional
FileDocs(alarm_maps) ==
    {[alarms |-> a] : a \in alarm_maps}
    \cup {[alarms |-> a, login |-> l] : a \in alarm_maps, l \in LoginDocs}

\* the documents that are combined with every login section and environment
CredentialFiles ==
    FileDocs({(ConfiguredCode :> [resources |-> [allUsers |-> TRUE], message |-> "m"]),
              (ConfiguredCode :> [resources |-> [units |-> <<"a">>],
                                  messageTemplate |-> "a"]),
              (ConfiguredCode :> [resources |-> [users |-> <<"a">>], message |-> "m"])})

\* os.environ restricted to the two variables the program reads
Environs ==
    {o @@ t : o \in {EmptyDict} \cup [ORGANIZATION_ID : {"7", "x"}],
              t \in {EmptyDict} \cup [API_TOKEN : {ApiToken}]}

\* int(): the decimal strings of the model, anything else raises ValueError
IsIntLiteral(s) == s = "7"
ParseInt(s) == IF s = "7" THEN 7 ELSE 0

(***************************************************************************)
(* YAML_CONFIG_FILE_SCHEMA under Validator(require_all=True): unknown keys *)
(* are rejected, a key under 'excludes' may not appear with a key it       *)
(* excludes, and of a group of required keys that exclude one another at   *)
(* least one must be present.                                              *)
(***************************************************************************)
ResourceExcludes ==
    [allUsers |-> {"labels", "scenarios", "units"},
     labels |-> {"allUsers", "scenarios", "units"},
     scenarios |-> {"allUsers", "labels", "units"},
     units |-> {"allUsers", "labels", "scenarios"}]

LabelEntrySchemaOk(entry) ==
    /\ Cardinality(DOMAIN entry) = 1
    /\ \A k \in DOMAIN entry : entry[k] >= 1

ResourcesSchemaOk(resources) ==
    /\ DOMAIN resources \subseteq DOMAIN ResourceExcludes
    /\ DOMAIN resources # {}
    /\ \A k \in DOMAIN resources : ResourceExcludes[k] \cap DOMAIN resources = {}
    /\ "labels" \in DOMAIN resources =>
          \A i \in DOMAIN resources["labels"] :
              LabelEntrySchemaOk(resources["labels"][i])

RuleSchemaOk(rule) ==
    /\ DOMAIN rule \subseteq
          {"resources", "message", "messageTemplate", "closeEventInHours"}
    /\ "resources" \in DOMAIN rule
    /\ ResourcesSchemaOk(rule["resources"])
    /\ ("message" \in DOMAIN rule) # ("messageTemplate" \in DOMAIN rule)
    /\ "closeEventInHours" \in DOMAIN rule => rule["closeEventInHours"] >= 0

SchemaValid(doc) ==
    /\ DOMAIN doc \subseteq {"login", "proxy", "alarms"}
    /\ "alarms" \in DOMAIN doc
    /\ "login" \in DOMAIN doc =>
          DOMAIN doc["login"] \subseteq {"organization-id", "api-token"}
    /\ \A code \in DOMAIN doc["alarms"] :
          Len(code) = 5 /\ RuleSchemaOk(doc["alarms"][code])

(***************************************************************************)
(* read_config_file, lines 109-136: the validated document with its login  *)
(* section completed from the environment, or the exception raised.        *)
(***************************************************************************)
Raise(kind, text) == [ok |-> FALSE, error |-> [kind |-> kind, text |-> text]]

\* variant of ReadConfig: a credential of the file wins over the environment
\* instead of being rejected
ReadConfigFileWins(doc, env) ==
    IF ~SchemaValid(doc) THEN Raise("SyntaxError", "schema")
    ELSE
    LET login0 == IF "login" \in DOMAIN doc THEN doc["login"] ELSE EmptyDict
        orgInFile == "organization-id" \in DOMAIN login0
        orgInEnv == "ORGANIZATION_ID" \in DOMAIN env
        tokInFile == "api-token" \in DOMAIN login0
        tokInEnv == "API_TOKEN" \in DOMAIN env
        login1 == IF orgInFile THEN login0
                  ELSE ("organization-id" :> ParseInt(env["ORGANIZATION_ID"])) @@ login0
        login2 == IF tokInFile THEN login1
                  ELSE ("api-token" :> env["API_TOKEN"]) @@ login1
    IN  IF ~orgInFile /\ ~orgInEnv
        THEN Raise("EnvironmentError", "organization id missing")
        ELSE IF ~orgInFile /\ ~IsIntLiteral(env["ORGANIZATION_ID"])
        THEN Raise("ValueError", "int")
        ELSE IF ~tokInFile /\ ~tokInEnv
        THEN Raise("EnvironmentError", "API token missing")
        ELSE [ok |-> TRUE,
              config |-> [alarms |-> doc["alarms"], login |-> login2]]

ReadConfig(doc, env) ==
    IF ~SchemaValid(doc) THEN Raise("SyntaxError", "schema")
    ELSE
    LET login0 == IF "login" \in DOMAIN doc THEN doc["login"] ELSE EmptyDict
        orgInFile == "organization-id" \in DOMAIN login0
        orgInEnv == "ORGANIZATION_ID" \in DOMAIN env
        tokInFile == "api-token" \in DOMAIN login0
        tokInEnv == "API_TOKEN" \in DOMAIN env
        login1 == IF orgInFile THEN login0
                  ELSE ("organization-id" :> ParseInt(env["ORGANIZATION_ID"])) @@ login0
        login2 == IF tokInFile THEN login1
                  ELSE ("api-token" :> env["API_TOKEN"]) @@ login1
    IN  IF ~orgInFile /\ ~orgInEnv
        THEN Raise("EnvironmentError", "organization id missing")
        ELSE IF ~orgInFile /\ ~IsIntLiteral(env["ORGANIZATION_ID"])
        THEN Raise("ValueError", "int")
        ELSE IF orgInFile /\ orgInEnv
        THEN Raise("EnvironmentError", "organization id given twice")
        ELSE IF ~tokInFile /\ ~tokInEnv
        THEN Raise("EnvironmentError", "API token missing")
        ELSE IF tokInFile /\ tokInEnv
        THEN Raise("EnvironmentError", "API token given twice")
        ELSE [ok |-> TRUE,
              config |-> [alarms |-> doc["alarms"], login |-> login2]]


(***************************************************************************)
(* get_alarm_resources, lines 302-326, up to its lookup: the variant the   *)
(* if/elif chain selects.                                                  *)
(***************************************************************************)
\* variant of HasConfig: the code's format is checked, not its presence
HasConfigByLength(code, cfg) == Len(code) = 5

HasConfig(code, cfg) == code \in DOMAIN cfg["alarms"]

\* config['alarms'][alarm_code] raises KeyError for a key that is absent
RuleLookupRaises(code, cfg) == code \notin DOMAIN cfg["alarms"]

\* variant of SelectedVariant: allUsers is selected by its key alone
SelectedVariantByKeyOnly(resources) ==
    IF "allUsers" \in DOMAIN resources THEN "allUsers"
    ELSE IF "labels" \in DOMAIN resources THEN "labels"
    ELSE IF "units" \in DOMAIN resources THEN "units"
    ELSE IF "users" \in DOMAIN resources THEN "users"
    ELSE IF "scenarios" \in DOMAIN resources THEN "scenarios"
    ELSE "none"

SelectedVariant(resources) ==
    IF "allUsers" \in DOMAIN resources /\ resources["allUsers"] THEN "allUsers"
    ELSE IF "labels" \in DOMAIN resources THEN "labels"
    ELSE IF "units" \in DOMAIN resources THEN "units"
    ELSE IF "users" \in DOMAIN resources THEN "users"
    ELSE IF "scenarios" \in DOMAIN resources THEN "scenarios"
    ELSE "none"

\* list(entry.keys())[0] and list(entry.values())[0] of a single-key dict
LabelName(entry) == CHOOSE k \in DOMAIN entry : TRUE
LabelAmount(entry) == entry[LabelName(entry)]

LabelNames(labels) == [i \in DOMAIN labels |-> LabelName(labels[i])]

\* the names handed to the resolver by the selected variant
VariantNames(resources, variant) ==
    IF variant = "labels" THEN LabelNames(resources["labels"])
    ELSE resources[variant]

\* variant of LabelsArray: the ids are taken from the end of the id list
LabelsArrayIdsReversed(labels, label_ids) ==
    [i \in DOMAIN labels |->
        [amount |-> LabelAmount(labels[i]),
         labelID |-> label_ids[Len(label_ids) + 1 - i]]]

\* lines 312-315: amounts zipped with the resolved ids by position
LabelsArray(labels, label_ids) ==
    [i \in DOMAIN labels |->
        [amount |-> LabelAmount(labels[i]), labelID |-> label_ids[i]]]

\* the payload get_alarm_resources returns once the ids are resolved
ResourcesPayload(resources, variant, ids) ==
    IF variant = "labels"
    THEN ("labels" :> LabelsArray(resources["labels"], ids))
    ELSE (variant :> ids)

(***************************************************************************)
(* Times: a time point is [hours, ticks], ticks being the part below one   *)
(* hour; timedelta(hours=h) moves the hours field.  to_isoformat_string    *)
(* renders the fields followed by the 'Z' suffix.                          *)
(***************************************************************************)
UtcNow(t) == [hours |-> 0, ticks |-> t]
PlusHours(time_point, h) == [time_point EXCEPT !.hours = @ + h]
to_isoformat_string(time_point) == <<time_point.hours, time_point.ticks, "Z">>

\* get_close_event_time_period: None, or the configured timedelta in hours
get_close_event_time_period(alarm_code, config) ==
    IF "closeEventInHours" \notin DOMAIN config["alarms"][alarm_code] THEN None
    ELSE Some(config["alarms"][alarm_code]["closeEventInHours"])

\* Python truth values: timedelta(0), '' and 0 are false, as is None
TimedeltaTruthy(period) == period # None /\ period[1] # 0
MessageTruthy(msg) == msg # None /\ msg[1] # ""
TemplateIdTruthy(id) == id # None /\ id[1] # 0

AlarmTimePoint == "05.12.2021 19:51:52"
AlarmType == "Probealarm"

\* send_alarm, lines 250-264
RequestBody(resources, organization_id, code, period, msg, template_id, now1, now2) ==
    LET base == [alarmResources |-> resources,
                 organizationID |-> organization_id,
                 startTime |-> to_isoformat_string(UtcNow(now1)),
                 eventName |-> <<"[Funkmelderalarm] Schleife", code,
                                 AlarmTimePoint, AlarmType>>]
        withEnd == IF TimedeltaTruthy(period)
                   THEN ("scheduledEndTime" :>
                            to_isoformat_string(PlusHours(UtcNow(now2), period[1])))
                        @@ base
                   ELSE base
    IN  IF MessageTruthy(msg) THEN ("message" :> msg[1]) @@ withEnd
        ELSE IF TemplateIdTruthy(template_id)
        THEN ("alarmTemplateID" :> template_id[1]) @@ withEnd
        ELSE withEnd

\* variant of DispatchUrl: the preview suffix is never appended
DispatchUrlAlwaysLive(do_emit) == "/alarm"

\* send_alarm, lines 266-269
DispatchUrl(do_emit) == IF do_emit THEN "/alarm" ELSE "/alarm/preview"

(***************************************************************************)
(* Responses of the remote service.                                        *)
(***************************************************************************)
Catalogs == SeqsUpTo([name : Names, id : Ids], MaxCatalog)

ErrorDicts ==
    {s @@ m @@ e : s \in [success : {FALSE}],
                   m \in {EmptyDict} \cup [message : {"msg"}],
                   e \in {EmptyDict} \cup [error : {"err"}]}

LookupBodies ==
    {[kind |-> "none"]}
    \cup {[kind |-> "list", list |-> c] : c \in Catalogs}
    \cup {[kind |-> "dict", dict |-> d] :
            d \in {[success |-> FALSE, message |-> "msg", error |-> "err"],
                   [success |-> FALSE, error |-> "err"]}}

DispatchBodies ==
    {[kind |-> "none"]}
    \cup {[kind |-> "dict", dict |-> d] : d \in ErrorDicts \cup {[success |-> TRUE]}}

\* every body with status 200; with the other statuses the bodies that hold
\* at most one catalog entry
ShortLookupBodies ==
    {b \in LookupBodies : b.kind = "list" => Len(b.list) <= 1}

LookupResponses ==
    [status : {200}, body : LookupBodies]
    \cup [status : Statuses \ {200}, body : ShortLookupBodies]
DispatchResponses == [status : Statuses, body : DispatchBodies]


(***************************************************************************)
(* State of one invocation.                                                *)
(***************************************************************************)
VARIABLES
    entry,            \* the function the invocation calls
    pc,               \* control position
    argv,             \* command line: [code, test]
    file,             \* the YAML document on disk
    environ,          \* os.environ
    config,           \* the configuration dict in memory
    alarm_code,       \* send_alarm's alarm_code
    do_emit_alarm,    \* send_alarm's do_emit_alarm
    lookup,           \* arguments of the current / last resolver call
    response,         \* the HTTP response being handled, or None
    entity_ids,       \* value returned by a direct resolver call, or None
    alarm_resources,  \* value returned by get_alarm_resources, or None
    alarm_template_id,\* first value returned by get_alarm_message, or None
    message,          \* second value returned by get_alarm_message, or None
    request_body,     \* the assembled request body, or None
    net,              \* the requests issued so far, in order
    stderr,           \* the diagnostics printed so far, in order
    error,            \* the exception that ended the invocation, or None
    clock             \* the last reading of datetime.utcnow()

vars == <<entry, pc, argv, file, environ, config, alarm_code, do_emit_alarm,
          lookup, response, entity_ids, alarm_resources, alarm_template_id,
          message, request_body, net, stderr, error, clock>>

SubEndpoints == {"units", "labels", "users", "scenarios", "alarms/templates"}

\* the value every local has before it is assigned
InitLocals ==
    /\ response = None
    /\ entity_ids = None
    /\ alarm_resources = None
    /\ alarm_template_id = None
    /\ message = None
    /\ request_body = None
    /\ net = <<>>
    /\ stderr = <<>>
    /\ error = None
    /\ clock = 0

\* the script is run: main()
InitMain ==
    /\ entry = "main"
    /\ pc = "main"
    /\ argv \in [code : {ConfiguredCode, OtherCode}, test : BOOLEAN]
    /\ \/ /\ file \in {[alarms |-> a, login |-> FullLogin] :
                           a \in AlarmMaps(MaxRunNames)}
          /\ environ = EmptyDict
       \/ /\ file \in CredentialFiles
          /\ environ \in Environs
    /\ config = EmptyDict
    /\ alarm_code = ""
    /\ do_emit_alarm = FALSE
    /\ lookup = None

\* send_alarm(config, alarm_time_point, alarm_code, alarm_type, do_emit_alarm)
InitSendAlarm ==
    /\ entry = "send_alarm"
    /\ pc = "get_alarm_resources"
    /\ argv = EmptyDict
    /\ file = EmptyDict
    /\ environ = EmptyDict
    /\ config \in {[alarms |-> a, login |-> FullLogin] : a \in AlarmMaps(MaxRunNames)}
    /\ alarm_code \in {ConfiguredCode, OtherCode}
    /\ do_emit_alarm \in BOOLEAN
    /\ lookup = None

\* get_alarm_resources(alarm_code, api_token, config, organization_id, proxy_config)
InitGetAlarmResources ==
    /\ entry = "get_alarm_resources"
    /\ pc = "get_alarm_resources"
    /\ argv = EmptyDict
    /\ file = EmptyDict
    /\ environ = EmptyDict
    /\ config \in {[alarms |-> (ConfiguredCode :> [resources |-> r, message |-> "m"]),
                    login |-> FullLogin] : r \in ResourceDocs(MaxNames)}
    /\ alarm_code \in {ConfiguredCode, OtherCode}
    /\ do_emit_alarm = FALSE
    /\ lookup = None

\* _get_entity_ids_from_endpoint(entity_names, ..., sub_endpoint, organization_param)
InitGetEntityIds ==
    /\ entry = "_get_entity_ids_from_endpoint"
    /\ pc = "_get_entity_ids_from_endpoint"
    /\ argv = EmptyDict
    /\ file = EmptyDict
    /\ environ = EmptyDict
    /\ config = EmptyDict
    /\ alarm_code = ""
    /\ do_emit_alarm = FALSE
    /\ lookup \in {Some([entity_names |-> n, sub_endpoint |-> e, for |-> "call"]) :
                      n \in NameLists(MaxNames), e \in SubEndpoints}

Init ==
    /\ InitLocals
    /\ \/ InitMain
       \/ InitSendAlarm
       \/ InitGetAlarmResources
       \/ InitGetEntityIds

(***************************************************************************)
(* An exception leaves the invocation: send_alarm prints it (line 279) and *)
(* re-raises, read_config_file prints it (line 138) and re-raises, main    *)
(* exits with -1.                                                          *)
(***************************************************************************)
InSendAlarm == entry \in {"main", "send_alarm"}

Fails(e, log) ==
    /\ pc' = "failed"
    /\ error' = Some(e)
    /\ stderr' = stderr \o log
                 \o (IF InSendAlarm THEN <<[kind |-> "send_alarm", error |-> e]>>
                     ELSE <<>>)

\* organization_param of the lookup request (lines 166, 221-222)
OrganizationParam(sub_endpoint) ==
    IF sub_endpoint = "alarms/templates" THEN "organization_id" ELSE "organization"

GetRequest(sub_endpoint) ==
    [method |-> "GET", url |-> sub_endpoint, param |-> OrganizationParam(sub_endpoint)]

AfterResources == IF entry = "get_alarm_resources" THEN "done" ELSE "get_alarm_message"

\* get_command_line_arguments, lines 352-361
GetCommandLineArguments ==
    /\ pc = "main"
    /\ alarm_code' = argv.code
    /\ do_emit_alarm' = ~argv.test
    /\ pc' = "read_config_file"
    /\ UNCHANGED <<entry, argv, file, environ, config, lookup, response,
                   entity_ids, alarm_resources, alarm_template_id, message,
                   request_body, net, stderr, error, clock>>

\* read_config_file, lines 104-139, and main's call of it
ReadConfigFile ==
    /\ pc = "read_config_file"
    /\ LET r == ReadConfig(file, environ)
       IN  IF r.ok
           THEN /\ config' = r.config
                /\ pc' = "get_alarm_resources"
                /\ UNCHANGED <<stderr, error>>
           ELSE /\ pc' = "failed"
                /\ error' = Some(r.error)
                /\ stderr' = Append(stderr, [kind |-> "read_config_file",
                                             error |-> r.error])
                /\ UNCHANGED config
    /\ UNCHANGED <<entry, argv, file, environ, alarm_code, do_emit_alarm, lookup,
                   response, entity_ids, alarm_resources, alarm_template_id,
                   message, request_body, net, clock>>

\* get_alarm_resources, lines 301-328, up to the return or the lookup request
GetAlarmResources ==
    /\ pc = "get_alarm_resources"
    /\ IF ~HasConfig(alarm_code, config)
       THEN /\ Fails([kind |-> "ValueError", text |-> "No alarm configuration"], <<>>)
            /\ UNCHANGED <<alarm_resources, lookup, net>>
       ELSE IF RuleLookupRaises(alarm_code, config)
       THEN /\ Fails([kind |-> "KeyError", text |-> "alarm_code"], <<>>)
            /\ UNCHANGED <<alarm_resources, lookup, net>>
       ELSE
       LET resources == config["alarms"][alarm_code]["resources"]
           variant == SelectedVariant(resources)
       IN  IF variant = "allUsers"
           THEN /\ alarm_resources' = Some([allUsers |-> TRUE])
                /\ pc' = AfterResources
                /\ UNCHANGED <<lookup, net, stderr, error>>
           ELSE IF variant = "none"
           THEN /\ Fails([kind |-> "ValueError", text |-> "no alarm resources"], <<>>)
                /\ UNCHANGED <<alarm_resources, lookup, net>>
           ELSE /\ lookup' = Some([entity_names |-> VariantNames(resources, variant),
                                   sub_endpoint |-> variant, for |-> "resources"])
                /\ net' = Append(net, GetRequest(variant))
                /\ pc' = "await_lookup"
                /\ UNCHANGED <<alarm_resources, stderr, error>>
    /\ UNCHANGED <<entry, argv, file, environ, config, alarm_code, do_emit_alarm,
                   response, entity_ids, alarm_template_id, message,
                   request_body, clock>>

\* a direct call of _get_entity_ids_from_endpoint: lines 167-168
GetEntityIdsFromEndpoint ==
    /\ pc = "_get_entity_ids_from_endpoint"
    /\ net' = Append(net, GetRequest(lookup[1].sub_endpoint))
    /\ pc' = "await_lookup"
    /\ UNCHANGED <<entry, argv, file, environ, config, alarm_code, do_emit_alarm,
                   lookup, response, entity_ids, alarm_resources,
                   alarm_template_id, message, request_body, stderr, error, clock>>

\* the lookup endpoint answers the GET
LookupAnswer ==
    /\ pc = "await_lookup"
    /\ \E r \in LookupResponses : response' = Some(r)
    /\ pc' = "lookup_response"
    /\ UNCHANGED <<entry, argv, file, environ, config, alarm_code, do_emit_alarm,
                   lookup, entity_ids, alarm_resources, alarm_template_id,
                   message, request_body, net, stderr, error, clock>>

\* _get_entity_ids_from_endpoint, lines 169-188, and the rest of its caller:
\* get_alarm_resources lines 312-328, get_alarm_message lines 293-298
FinishLookup ==
    /\ pc = "lookup_response"
    /\ LET call == lookup[1]
           r == EntityIdsFromResponse(call.entity_names, response[1])
           log == JsonResponseLog(response[1].body)
       IN  IF ~r.ok
           THEN /\ Fails(r.error, log)
                /\ UNCHANGED <<entity_ids, alarm_resources, alarm_template_id>>
           ELSE /\ stderr' = stderr \o log
                /\ UNCHANGED error
                /\ IF call.for = "resources"
                   THEN /\ alarm_resources' =
                              Some(ResourcesPayload(
                                      config["alarms"][alarm_code]["resources"],
                                      call.sub_endpoint, r.entity_ids))
                        /\ pc' = AfterResources
                        /\ UNCHANGED <<entity_ids, alarm_template_id>>
                   ELSE IF call.for = "template"
                   THEN /\ alarm_template_id' = Some(r.entity_ids[1])
                        /\ pc' = "post"
                        /\ UNCHANGED <<entity_ids, alarm_resources>>
                   ELSE /\ entity_ids' = Some(r.entity_ids)
                        /\ pc' = "done"
                        /\ UNCHANGED <<alarm_resources, alarm_template_id>>
    /\ response' = None
    /\ UNCHANGED <<entry, argv, file, environ, config, alarm_code, do_emit_alarm,
                   lookup, message, request_body, net, clock>>

\* get_alarm_message, lines 283-298, up to the return or the lookup request
GetAlarmMessage ==
    /\ pc = "get_alarm_message"
    /\ LET alarm_config == config["alarms"][alarm_code]
       IN  IF ~HasConfig(alarm_code, config)
           THEN /\ Fails([kind |-> "ValueError", text |-> "No alarm configuration"], <<>>)
                /\ UNCHANGED <<message, lookup, net>>
           ELSE IF "message" \in DOMAIN alarm_config
           THEN /\ message' = Some(alarm_config["message"])
                /\ pc' = "post"
                /\ UNCHANGED <<lookup, net, stderr, error>>
           ELSE IF "messageTemplate" \in DOMAIN alarm_config
           THEN /\ lookup' = Some([entity_names |-> <<alarm_config["messageTemplate"]>>,
                                   sub_endpoint |-> "alarms/templates",
                                   for |-> "template"])
                /\ net' = Append(net, GetRequest("alarms/templates"))
                /\ pc' = "await_lookup"
                /\ UNCHANGED <<message, stderr, error>>
           ELSE /\ Fails([kind |-> "ValueError", text |-> "no alarm message"], <<>>)
                /\ UNCHANGED <<message, lookup, net>>
    /\ UNCHANGED <<entry, argv, file, environ, config, alarm_code, do_emit_alarm,
                   response, entity_ids, alarm_resources, alarm_template_id,
                   request_body, clock>>

\* send_alarm, lines 250-270: the body is assembled, reading the clock once
\* for startTime and once more for scheduledEndTime, and posted
PostAlarm ==
    /\ pc = "post"
    /\ LET period == get_close_event_time_period(alarm_code, config)
       IN  \E now1 \in clock..MaxClock :
           \E now2 \in now1..MaxClock :
              /\ TimedeltaTruthy(period) \/ now2 = now1
              /\ request_body' =
                    Some(RequestBody(alarm_resources[1],
                                     config["login"]["organization-id"],
                                     alarm_code, period, message,
                                     alarm_template_id, now1, now2))
              /\ clock' = now2
    /\ net' = Append(net, [method |-> "POST", url |-> DispatchUrl(do_emit_alarm),
                           param |-> "json"])
    /\ pc' = "await_dispatch"
    /\ UNCHANGED <<entry, argv, file, environ, config, alarm_code, do_emit_alarm,
                   lookup, response, entity_ids, alarm_resources,
                   alarm_template_id, message, stderr, error>>

\* the alarm endpoint answers the POST
DispatchAnswer ==
    /\ pc = "await_dispatch"
    /\ \E r \in DispatchResponses : response' = Some(r)
    /\ pc' = "dispatch_response"
    /\ UNCHANGED <<entry, argv, file, environ, config, alarm_code, do_emit_alarm,
                   lookup, entity_ids, alarm_resources, alarm_template_id,
                   message, request_body, net, stderr, error, clock>>

\* send_alarm, lines 271-280
FinishDispatch ==
    /\ pc = "dispatch_response"
    /\ LET r == response[1]
           log == JsonResponseLog(r.body)
       IN  IF JsonResponseRaises(r.body)
           THEN Fails([kind |-> "KeyError", text |-> "message"], log)
           ELSE IF RaisesForStatus(r.status)
           THEN Fails([kind |-> "HTTPError", text |-> "status"], log)
           ELSE /\ pc' = "done"
                /\ stderr' = stderr \o log
                /\ UNCHANGED error
    /\ response' = None
    /\ UNCHANGED <<entry, argv, file, environ, config, alarm_code, do_emit_alarm,
                   lookup, entity_ids, alarm_resources, alarm_template_id,
                   message, request_body, net, clock>>

Next ==
    \/ GetCommandLineArguments
    \/ ReadConfigFile
    \/ GetAlarmResources
    \/ GetEntityIdsFromEndpoint
    \/ LookupAnswer
    \/ FinishLookup
    \/ GetAlarmMessage
    \/ PostAlarm
    \/ DispatchAnswer
    \/ FinishDispatch

Spec == Init /\ [][Next]_vars


(***************************************************************************)
(* Properties.                                                             *)
(***************************************************************************)
\* a response that hands a catalog to the resolver: success status, JSON array
DeliversCatalog(r) == Is2xx(r.status) /\ r.body.kind = "list"
CatalogNames(catalog) == {catalog[j].name : j \in DOMAIN catalog}
CatalogHas(catalog, name, id) ==
    \E j \in DOMAIN catalog : catalog[j].name = name /\ catalog[j].id = id

\* C1: when _get_entity_ids_from_endpoint handles a catalog, then if every
\* requested name is in the catalog the call returns one id per requested
\* name, in input order, each an id the catalog gives for that name; and if
\* some requested name is absent the call fails and the names the error
\* lists are exactly the requested names that are not in the catalog.
C1_ResolutionInOrderOrExactMissing ==
    [][(pc = "lookup_response" /\ lookup[1].for = "call"
          /\ DeliversCatalog(response[1])) =>
        LET names == lookup[1].entity_names
            catalog == response[1].body.list
        IN  IF Range(names) \subseteq CatalogNames(catalog)
            THEN /\ pc' = "done"
                 /\ entity_ids' # None
                 /\ Len(entity_ids'[1]) = Len(names)
                 /\ \A i \in DOMAIN names :
                       CatalogHas(catalog, names[i], entity_ids'[1][i])
            ELSE /\ pc' = "failed"
                 /\ entity_ids' = None
                 /\ error'[1].kind = "ValueError"
                 /\ error'[1].missing =
                       {n \in Range(names) : n \notin CatalogNames(catalog)}]_vars

\* C1 witness: a direct call resolved two names to two different ids
C1_Witness ==
    /\ entry = "_get_entity_ids_from_endpoint"
    /\ pc = "done"
    /\ lookup[1].entity_names = <<"b", "a">>
    /\ entity_ids # None
    /\ entity_ids[1][1] # entity_ids[1][2]

\* C2: when the labels variant is selected and every label name is in the
\* catalog, get_alarm_resources returns {labels: L}, L as long as the
\* configured list, L[i] carrying the amount configured at position i and an
\* id the catalog gives for the label name configured at position i.
C2_LabelsPairedByPosition ==
    [][(pc = "lookup_response" /\ lookup[1].for = "resources"
          /\ lookup[1].sub_endpoint = "labels"
          /\ DeliversCatalog(response[1])
          /\ Range(lookup[1].entity_names)
                \subseteq CatalogNames(response[1].body.list)) =>
        LET labels == config["alarms"][alarm_code]["resources"]["labels"]
            catalog == response[1].body.list
        IN  /\ alarm_resources' # None
            /\ DOMAIN alarm_resources'[1] = {"labels"}
            /\ Len(alarm_resources'[1]["labels"]) = Len(labels)
            /\ \A i \in DOMAIN labels :
                  \E n \in DOMAIN labels[i] :
                     /\ alarm_resources'[1]["labels"][i].amount = labels[i][n]
                     /\ CatalogHas(catalog, n,
                                   alarm_resources'[1]["labels"][i].labelID)]_vars

\* C2 witness: two labels with different amounts resolved to different ids
C2_Witness ==
    /\ entry = "get_alarm_resources"
    /\ pc = "done"
    /\ alarm_resources # None
    /\ DOMAIN alarm_resources[1] = {"labels"}
    /\ Len(alarm_resources[1]["labels"]) = 2
    /\ alarm_resources[1]["labels"][1].amount # alarm_resources[1]["labels"][2].amount
    /\ alarm_resources[1]["labels"][1].labelID # alarm_resources[1]["labels"][2].labelID

\* the variants a resources dict populates: a list variant by its key, the
\* allUsers variant by a true flag (the AllUsers variant is "true only")
ResourceVariants == {"allUsers", "labels", "units", "users", "scenarios"}
Populated(resources) ==
    {k \in ResourceVariants \cap DOMAIN resources :
        k = "allUsers" => resources["allUsers"]}

\* C3: a rule that populates exactly one of the five variants, all names
\* resolvable, makes get_alarm_resources return a payload whose only key is
\* that variant's; a rule that populates none makes it fail with 'no alarm
\* resources', returning no payload.
C3_OneVariantOneKey ==
    [][/\ (pc = "get_alarm_resources" /\ HasConfig(alarm_code, config)) =>
            LET populated == Populated(config["alarms"][alarm_code]["resources"])
            IN  /\ populated = {} =>
                     /\ pc' = "failed"
                     /\ error'[1].text = "no alarm resources"
                     /\ alarm_resources' = None
                /\ populated = {"allUsers"} =>
                     /\ pc' # "failed"
                     /\ alarm_resources' # None
                     /\ DOMAIN alarm_resources'[1] = {"allUsers"}
                /\ (Cardinality(populated) = 1 /\ populated # {"allUsers"}) =>
                     /\ pc' = "await_lookup"
                     /\ {lookup'[1].sub_endpoint} = populated
       /\ (pc = "lookup_response" /\ lookup[1].for = "resources"
             /\ DeliversCatalog(response[1])
             /\ Range(lookup[1].entity_names)
                   \subseteq CatalogNames(response[1].body.list)) =>
            LET populated == Populated(config["alarms"][alarm_code]["resources"])
            IN  Cardinality(populated) = 1 =>
                   /\ pc' # "failed"
                   /\ alarm_resources' # None
                   /\ DOMAIN alarm_resources'[1] = populated]_vars

\* C3 witness: a rule with only a users list returned a payload keyed users
C3_Witness ==
    /\ entry = "get_alarm_resources"
    /\ pc = "done"
    /\ DOMAIN config["alarms"][alarm_code]["resources"] = {"users"}
    /\ alarm_resources # None
    /\ DOMAIN alarm_resources[1] = {"users"}
    /\ Len(alarm_resources[1]["users"]) = 2


\* the rule send_alarm works on once a request body exists
FiredRule == config["alarms"][alarm_code]

\* C4: every assembled request body holds exactly one of 'message' and
\* 'alarmTemplateID'; 'message' exactly when the rule configures a literal
\* message, whatever its text, and otherwise 'alarmTemplateID' with the id
\* resolved for the template name, whatever that id.
C4_MessageXorTemplate ==
    request_body # None =>
        LET body == request_body[1]
        IN  /\ ("message" \in DOMAIN body) # ("alarmTemplateID" \in DOMAIN body)
            /\ ("message" \in DOMAIN body) <=> ("message" \in DOMAIN FiredRule)
            /\ "message" \in DOMAIN body => body["message"] = FiredRule["message"]
            /\ "alarmTemplateID" \in DOMAIN body =>
                  body["alarmTemplateID"] = alarm_template_id[1]

\* C5: every assembled request body holds 'startTime', and holds
\* 'scheduledEndTime' exactly when the fired rule configures
\* closeEventInHours, for every value >= 0.
C5_EndTimeIffConfigured ==
    request_body # None =>
        LET body == request_body[1]
        IN  /\ "startTime" \in DOMAIN body
            /\ ("closeEventInHours" \in DOMAIN FiredRule
                   /\ FiredRule["closeEventInHours"] >= 0)
                  => "scheduledEndTime" \in DOMAIN body
            /\ "closeEventInHours" \notin DOMAIN FiredRule
                  => "scheduledEndTime" \notin DOMAIN body

\* C6: with closeEventInHours = h >= 1 the assembled body has
\* scheduledEndTime = startTime + h hours exactly, however the clock moves
\* while send_alarm runs.
C6_EndTimeIsStartPlusHours ==
    (request_body # None /\ "closeEventInHours" \in DOMAIN FiredRule
        /\ FiredRule["closeEventInHours"] >= 1) =>
       LET body == request_body[1]
           h == FiredRule["closeEventInHours"]
       IN  /\ "scheduledEndTime" \in DOMAIN body
           /\ body["scheduledEndTime"] =
                 <<body["startTime"][1] + h, body["startTime"][2], "Z">>

\* C7: a dispatch response with a non-2xx status makes send_alarm fail
\* whatever its body; a 2xx response whose JSON body reports success:false,
\* with or without the message and error fields, gets a diagnostic logged and
\* send_alarm completes without raising.
C7_StatusFatalBodyLogged ==
    [][pc = "dispatch_response" =>
        LET r == response[1]
        IN  /\ ~Is2xx(r.status) => pc' = "failed"
            /\ (Is2xx(r.status) /\ r.body.kind = "dict"
                  /\ "success" \in DOMAIN r.body.dict
                  /\ ~r.body.dict["success"]) =>
                    /\ pc' = "done"
                    /\ Len(stderr') = Len(stderr) + 1
                    /\ stderr'[Len(stderr')].kind = "server"]_vars

\* C8: in preview mode (do_emit_alarm false) no POST goes to '/alarm': the
\* run issues at most one POST, to '/alarm/preview' in preview mode and to
\* '/alarm' otherwise; under main preview mode is the --test flag.
C8_PreviewNeverPostsLive ==
    LET posts == {i \in DOMAIN net : net[i].method = "POST"}
    IN  /\ Cardinality(posts) <= 1
        /\ \A i \in posts :
              /\ ~do_emit_alarm => net[i].url = "/alarm/preview"
              /\ do_emit_alarm => net[i].url = "/alarm"
              /\ entry = "main" => (argv.test <=> net[i].url = "/alarm/preview")

\* C8 witness: a preview run of main that posted to '/alarm/preview'
C8_Witness ==
    /\ entry = "main"
    /\ argv.test
    /\ pc = "done"
    /\ net # <<>>
    /\ net[Len(net)] = [method |-> "POST", url |-> "/alarm/preview", param |-> "json"]

\* C9: every configuration the schema validation accepts has, in each rule,
\* exactly one resource variant and exactly one of message / messageTemplate,
\* so that a run on it never ends in 'no alarm resources' or 'no alarm
\* message'.
C9_ValidatedRuleNeverLacksVariant ==
    (entry = "main" /\ SchemaValid(file)) =>
        /\ \A code \in DOMAIN file["alarms"] :
              LET rule == file["alarms"][code]
              IN  /\ Cardinality(DOMAIN rule["resources"] \cap ResourceVariants) = 1
                  /\ Cardinality(DOMAIN rule \cap {"message", "messageTemplate"}) = 1
        /\ error # None =>
              error[1].text \notin {"no alarm resources", "no alarm message"}

\* a credential field given by the file and by the environment, or by neither
CredentialTwiceOrMissing(doc, env) ==
    LET login == IF "login" \in DOMAIN doc THEN doc["login"] ELSE EmptyDict
    IN  \/ ("organization-id" \in DOMAIN login) <=> ("ORGANIZATION_ID" \in DOMAIN env)
        \/ ("api-token" \in DOMAIN login) <=> ("API_TOKEN" \in DOMAIN env)

\* C10: a run of main whose configuration violates the schema, or gives a
\* credential field both in the file and in the environment, or gives it in
\* neither, fails in read_config_file and never issues a network request.
C10_BadConfigurationNoRequest ==
    (entry = "main"
        /\ (~SchemaValid(file) \/ CredentialTwiceOrMissing(file, environ))) =>
       /\ net = <<>>
       /\ pc \in {"main", "read_config_file", "failed"}

\* C10 witness: a schema-valid file whose organization id is also in the
\* environment ended the run with no request issued
C10_Witness ==
    /\ entry = "main"
    /\ pc = "failed"
    /\ SchemaValid(file)
    /\ "login" \in DOMAIN file
    /\ "organization-id" \in DOMAIN file["login"]
    /\ "ORGANIZATION_ID" \in DOMAIN environ
    /\ net = <<>>


\* the requests of a run that reached its POST: the resource lookup if the
\* payload is not allUsers, then the template lookup if the rule has no
\* literal message, then the POST, each once and each lookup succeeded
PostFollowsLookups ==
    (\E i \in DOMAIN net : net[i].method = "POST") =>
        /\ alarm_resources # None
        /\ "message" \notin DOMAIN FiredRule => alarm_template_id # None
        /\ LET key == CHOOSE k \in DOMAIN alarm_resources[1] : TRUE
               resourceGet ==
                   IF key = "allUsers" THEN <<>>
                   ELSE <<[method |-> "GET", url |-> key, param |-> "organization"]>>
               templateGet ==
                   IF "message" \in DOMAIN FiredRule THEN <<>>
                   ELSE <<[method |-> "GET", url |-> "alarms/templates",
                           param |-> "organization_id"]>>
           IN  net = resourceGet \o templateGet
                        \o <<[method |-> "POST", url |-> DispatchUrl(do_emit_alarm),
                              param |-> "json"]>>

NoRequestRepeated ==
    \A i, j \in DOMAIN net : i # j => net[i] # net[j]

\* C11: in a run of send_alarm a failing step ends the run: a lookup answered
\* with a non-success status, a requested name missing from the catalog and a
\* failed dispatch each make the run fail; the failing step and every step
\* after it issue no request; no request is repeated; the POST comes only
\* after the resource lookup and then the template lookup (each when needed)
\* have succeeded.
C11_FailureEndsRunRequestsInOrder ==
    [][InSendAlarm =>
        /\ (pc = "lookup_response" /\ ~Is2xx(response[1].status)) => pc' = "failed"
        /\ (pc = "lookup_response" /\ DeliversCatalog(response[1])
              /\ ~(Range(lookup[1].entity_names)
                      \subseteq CatalogNames(response[1].body.list)))
              => pc' = "failed"
        /\ (pc = "dispatch_response" /\ ~Is2xx(response[1].status)) => pc' = "failed"
        /\ (pc = "failed" \/ pc' = "failed") => net' = net
        /\ NoRequestRepeated'
        /\ PostFollowsLookups']_vars


\* C12: in a run on a configuration the schema validation accepts, no lookup
\* is made for an empty name sequence: a selected labels, units, users or
\* scenarios variant carries at least one name.
C12_NoLookupOfZeroNames ==
    (entry = "main" /\ SchemaValid(file) /\ lookup # None) =>
        Len(lookup[1].entity_names) >= 1


\* a document whose rules all select users only, and that the schema accepts
\* once each users list is given under the key units instead
UsersAsUnits(doc) ==
    [doc EXCEPT !["alarms"] =
        [code \in DOMAIN doc["alarms"] |->
            [doc["alarms"][code] EXCEPT !["resources"] =
                [units |-> doc["alarms"][code]["resources"]["users"]]]]]

UsersOnlyDocument(doc) ==
    /\ "alarms" \in DOMAIN doc
    /\ \A code \in DOMAIN doc["alarms"] :
          DOMAIN doc["alarms"][code]["resources"] = {"users"}
    /\ SchemaValid(UsersAsUnits(doc))

\* C13: every resource variant is reachable through validation; in
\* particular a rule whose resources are only a users list is accepted by
\* the validation in read_config_file and, its names resolved, yields the
\* payload {users: [ids]}.
C13_UsersRuleAcceptedByValidation ==
    [][(entry = "main" /\ UsersOnlyDocument(file)) =>
        /\ (pc = "read_config_file" /\ ~CredentialTwiceOrMissing(file, environ)
              /\ ("ORGANIZATION_ID" \in DOMAIN environ
                     => IsIntLiteral(environ["ORGANIZATION_ID"])))
              => pc' = "get_alarm_resources"
        /\ (pc = "lookup_response" /\ lookup[1].for = "resources"
              /\ DeliversCatalog(response[1])
              /\ Range(lookup[1].entity_names)
                    \subseteq CatalogNames(response[1].body.list))
              => (alarm_resources' # None
                    /\ DOMAIN alarm_resources'[1] = {"users"})]_vars


\* C14: a run of send_alarm with an alert code that is no key of the
\* configuration's alarms fails with 'No alarm configuration for the alarm
\* code' and issues no network request at any point.
C14_UnknownCodeFailsBeforeRequests ==
    (InSendAlarm /\ "alarms" \in DOMAIN config
        /\ alarm_code \notin DOMAIN config["alarms"]) =>
       /\ net = <<>>
       /\ pc \in {"get_alarm_resources", "failed"}
       /\ pc = "failed" =>
             error[1] = [kind |-> "ValueError", text |-> "No alarm configuration"]

\* C14 witness: main ran on a validated configuration with a code it does
\* not configure and ended in that failure, the request log empty
C14_Witness ==
    /\ entry = "main"
    /\ pc = "failed"
    /\ "alarms" \in DOMAIN config
    /\ alarm_code \notin DOMAIN config["alarms"]
    /\ error[1].text = "No alarm configuration"
    /\ net = <<>>

=============================================================================
